---- MODULE Spec2Model ----
(***************************************************************************)
(* The environment configuration resolver of src/src/utils.py              *)
(* (load_context_config and its nested read_file) as a state machine over  *)
(* one configuration directory.  A call is taken one statement group at a  *)
(* time; every filesystem access it makes is appended to io.               *)
(***************************************************************************)
EXTENDS Integers, Sequences, FiniteSets, TLC

VARIABLES
    dir,          \* the configuration directory: path -> text of the file, or Absent
    pc,           \* position of the (single) caller inside load_context_config
    env_name,     \* the argument of the call in progress
    base_config,  \* local of load_context_config
    env_files,    \* local of load_context_config
    env_config,   \* local of load_context_config
    outcome,      \* what the call returned or raised
    io,           \* the filesystem accesses of the call in progress, in order
    ref           \* a remembered earlier call: its argument, directory and outcome

vars == <<dir, pc, env_name, base_config, env_files, env_config, outcome, io, ref>>

-----------------------------------------------------------------------------
(* Bounds of the model *)

\* At most this many files are present in the directory at once.
MaxFiles == 3

\* The texts a file may hold.
EmptyText == ""
BlankText == " \n"
BadText   == "invalid: yaml: content: [unclosed"
FlowText  == "{\"A\": 1, \"B\": 2, \"T\": {\"x\": 1}}"
BlockText == "B: 3\nC: 4\nT:\n  y: 2"

Texts == {EmptyText, BlankText, BadText, FlowText, BlockText}

\* Documents, in both formats, whose top-level value is not a mapping.
ListText      == "[1]"
EmptyListText == "[]"
ZeroText      == "0"

Absent == "<absent>"

\* The environment names a caller passes.
Names == {"dev", "stage", "prod", "DEV", ""}

NoName == "<no call>"

-----------------------------------------------------------------------------
(* Python values *)

PyNone     == [type |-> "NoneType"]
PyInt(n)   == [type |-> "int", v |-> n]
PyDict(f)  == [type |-> "dict", items |-> f]
PyList(s)  == [type |-> "list", elems |-> s]
Unbound    == [type |-> "<unbound>"]

EmptyItems == [k \in {} |-> PyNone]
EmptyDict  == PyDict(EmptyItems)

IsDict(v)  == v.type = "dict"

\* Python truth value of v, as `or` tests it.
Truthy(v) ==
    CASE v.type = "NoneType" -> FALSE
      [] v.type = "int"      -> v.v # 0
      [] v.type = "dict"     -> DOMAIN v.items # {}
      [] v.type = "list"     -> Len(v.elems) > 0
      [] OTHER               -> TRUE

\* Exceptions and results of an evaluation that may raise.
NoExc          == [type |-> "<none>", msg |-> <<>>]
Exc(t, m)      == [type |-> t, msg |-> m]
Ok(v)          == [exc |-> NoExc, val |-> v]
Raise(t, m)    == [exc |-> Exc(t, m), val |-> PyNone]
Raised(r)      == r.exc # NoExc

-----------------------------------------------------------------------------
(* Paths *)

Path(stem, suffix) == <<stem, suffix>>
Suffix(path)       == path[2]

\* A base document looked for under its JSON name.
base_path_json     == Path("base", ".json")

base_path          == Path("base", ".yaml")
env_yaml(e)        == Path(e, ".yaml")
env_yml(e)         == Path(e, ".yml")
env_json(e)        == Path(e, ".json")

valid_envs         == {"dev", "stage", "prod"}
SortedValidEnvs    == <<"dev", "prod", "stage">>

Candidates(e)      == <<env_yaml(e), env_yml(e), env_json(e)>>

\* The environments that get files in the directory; the third never has one.
FileEnvs == {"dev", "stage"}

\* Every file the directory may hold.
Files ==
    {base_path, Path("base", ".json")}
        \cup {Path(e, s) : e \in FileEnvs, s \in {".yaml", ".yml", ".json"}}

Exists(d, path) == path \in DOMAIN d /\ d[path] # Absent

Present(d) == {f \in DOMAIN d : d[f] # Absent}

-----------------------------------------------------------------------------
(* The parsers read_file hands a file to *)

FlowValue ==
    PyDict([A |-> PyInt(1), B |-> PyInt(2), T |-> PyDict([x |-> PyInt(1)])])
BlockValue ==
    PyDict([B |-> PyInt(3), C |-> PyInt(4), T |-> PyDict([y |-> PyInt(2)])])

\* yaml.safe_load on the text of a file: an empty stream is None, a flow
\* mapping and a block mapping are mappings, an unclosed flow sequence raises.
yaml_safe_load(text) ==
    CASE text = EmptyText -> Ok(PyNone)
      [] text = BlankText -> Ok(PyNone)
      [] text = FlowText  -> Ok(FlowValue)
      [] text = BlockText -> Ok(BlockValue)
      [] text = ListText  -> Ok(PyList(<<PyInt(1)>>))
      [] text = EmptyListText -> Ok(PyList(<<>>))
      [] text = ZeroText  -> Ok(PyInt(0))
      [] OTHER            -> Raise("yaml.YAMLError", <<"yaml", text>>)

\* json.load on the text of a file: the JSON object, the JSON arrays and the
\* JSON number are JSON documents, the other texts are not.
json_load(text) ==
    CASE text = FlowText -> Ok(FlowValue)
      [] text = ListText -> Ok(PyList(<<PyInt(1)>>))
      [] text = EmptyListText -> Ok(PyList(<<>>))
      [] text = ZeroText -> Ok(PyInt(0))
      [] OTHER           -> Raise("json.JSONDecodeError", <<"json", text>>)

\* `yaml.safe_load(f)`, without the `or {}`.
NoOrEmptyDict(r) == r

\* `yaml.safe_load(f) or {}`
OrEmptyDict(r) ==
    IF Raised(r) \/ Truthy(r.val) THEN r ELSE Ok(EmptyDict)

\* A read_file that catches the parser's error and raises its own.
read_file_wrapping(d, path) ==
    LET r == IF Suffix(path) \in {".yaml", ".yml"}
             THEN OrEmptyDict(yaml_safe_load(d[path]))
             ELSE IF Suffix(path) = ".json"
             THEN json_load(d[path])
             ELSE Raise("ValueError", <<"Unsupported config file type", Suffix(path)>>)
    IN IF Raised(r) THEN Raise("ValueError", <<"Could not parse", path>>) ELSE r

\* A read_file that hands every file to the YAML parser.
read_file_all_yaml(d, path) ==
    IF Suffix(path) \in {".yaml", ".yml", ".json"}
    THEN OrEmptyDict(yaml_safe_load(d[path]))
    ELSE Raise("ValueError", <<"Unsupported config file type", Suffix(path)>>)

\* read_file(path) on directory d: the value returned or the exception raised.
read_file(d, path) ==
    IF Suffix(path) \in {".yaml", ".yml"}
    THEN OrEmptyDict(yaml_safe_load(d[path]))
    ELSE IF Suffix(path) = ".json"
    THEN json_load(d[path])
    ELSE Raise("ValueError", <<"Unsupported config file type", Suffix(path)>>)

\* A merge that descends into mappings held by both sides under one key.
DeepMerge(b, e) ==
    IF ~IsDict(b) THEN Raise("TypeError", <<"object is not a mapping", b.type>>)
    ELSE IF ~IsDict(e) THEN Raise("TypeError", <<"object is not a mapping", e.type>>)
    ELSE Ok(PyDict([k \in DOMAIN b.items \cup DOMAIN e.items |->
                       IF k \notin DOMAIN e.items THEN b.items[k]
                       ELSE IF k \notin DOMAIN b.items THEN e.items[k]
                       ELSE IF IsDict(b.items[k]) /\ IsDict(e.items[k])
                       THEN PyDict([j \in DOMAIN b.items[k].items
                                          \cup DOMAIN e.items[k].items |->
                                       IF j \in DOMAIN e.items[k].items
                                       THEN e.items[k].items[j]
                                       ELSE b.items[k].items[j]])
                       ELSE e.items[k]]))

\* {**base_config, **env_config}
Merge(b, e) ==
    IF ~IsDict(b) THEN Raise("TypeError", <<"object is not a mapping", b.type>>)
    ELSE IF ~IsDict(e) THEN Raise("TypeError", <<"object is not a mapping", e.type>>)
    ELSE Ok(PyDict([k \in DOMAIN b.items \cup DOMAIN e.items |->
                       IF k \in DOMAIN e.items THEN e.items[k] ELSE b.items[k]]))

-----------------------------------------------------------------------------
(* The state *)

Pending  == [exc |-> NoExc, val |-> Unbound]
NoRef    == [env |-> NoName, dir |-> <<>>, outcome |-> Pending]

Access(op, path) == [op |-> op, path |-> path]

EmptyDirectory == [f \in Files |-> Absent]

Init ==
    /\ dir = EmptyDirectory
    /\ pc = "idle"
    /\ env_name = NoName
    /\ base_config = Unbound
    /\ env_files = <<>>
    /\ env_config = Unbound
    /\ outcome = Pending
    /\ io = <<>>
    /\ ref = NoRef

-----------------------------------------------------------------------------
(* load_context_config, one statement group per action *)

\* The check written `if env_name and env_name not in valid_envs`.
ValidEnvironmentOrEmpty(e) == e = "" \/ e \in valid_envs

\* `env_name not in valid_envs` is false
ValidEnvironment(e) == e \in valid_envs

\* raise ValueError(f"Invalid environment '{env_name}'. Must be one of: ...")
InvalidEnvironmentError(e) ==
    Raise("ValueError", <<"Invalid environment", e, SortedValidEnvs>>)

\* The not-found error naming only the first path tried.
NotFoundErrorFirstPath(e) ==
    Raise("FileNotFoundError", <<"No config file found", e, <<env_yaml(e)>> >>)

\* The multiple-files error naming only the first two files found.
MultipleFilesErrorFirstTwo(e, found) ==
    Raise("ValueError", <<"Multiple config files found", e, SubSeq(found, 1, 2)>>)

\* raise FileNotFoundError(f"No config file found for environment ... Expected one of: ...")
NotFoundError(e) ==
    Raise("FileNotFoundError", <<"No config file found", e, Candidates(e)>>)

\* raise ValueError(f"Multiple config files found for environment '{env_name}': {env_files}. ...")
MultipleFilesError(e, found) ==
    Raise("ValueError", <<"Multiple config files found", e, found>>)

\* A default base that brings keys of its own.
DefaultBaseWithFallback == PyDict([A |-> PyInt(0)])

\* base_config = {}
DefaultBase == EmptyDict

\* Entry and environment validation.
Call(e) ==
    /\ pc = "idle"
    /\ env_name' = e
    /\ IF ValidEnvironment(e)
       THEN /\ pc' = "load_base"
            /\ outcome' = Pending
       ELSE /\ pc' = "raised"
            /\ outcome' = InvalidEnvironmentError(e)
    /\ UNCHANGED <<dir, base_config, env_files, env_config, io, ref>>

\* base_config = {}; if base_path.exists(): base_config = read_file(base_path)
LoadBase ==
    /\ pc = "load_base"
    /\ IF Exists(dir, base_path)
       THEN LET r == read_file(dir, base_path) IN
            /\ io' = io \o <<Access("exists", base_path), Access("open", base_path)>>
            /\ IF Raised(r)
               THEN /\ pc' = "raised"
                    /\ outcome' = r
                    /\ UNCHANGED base_config
               ELSE /\ pc' = "detect"
                    /\ base_config' = r.val
                    /\ UNCHANGED outcome
       ELSE /\ io' = Append(io, Access("exists", base_path))
            /\ pc' = "detect"
            /\ base_config' = DefaultBase
            /\ UNCHANGED outcome
    /\ UNCHANGED <<dir, env_name, env_files, env_config, ref>>

\* Discovery that stops at the first candidate on disk (.yaml, then .yml, then .json).
FirstExistingCandidate(d, e) ==
    LET here(p) == Exists(d, p)
        found == SelectSeq(Candidates(e), here)
    IN IF found = <<>> THEN <<>> ELSE <<Head(found)>>

\* env_files = [p for p in [env_yaml, env_yml, env_json] if p.exists()]
ExistingCandidates(d, e) ==
    LET here(p) == Exists(d, p) IN SelectSeq(Candidates(e), here)

\* Discovery that, given several candidates, takes whichever the directory
\* listing happens to give first.
DetectEnvFilesAnyOrder ==
    /\ pc = "detect"
    /\ LET found == ExistingCandidates(dir, env_name) IN
       /\ io' = io \o [i \in 1..3 |-> Access("exists", Candidates(env_name)[i])]
       /\ IF Len(found) = 0
          THEN /\ pc' = "raised"
               /\ outcome' = NotFoundError(env_name)
               /\ UNCHANGED env_files
          ELSE /\ pc' = "load_env"
               /\ \E i \in 1..Len(found) : env_files' = <<found[i]>>
               /\ UNCHANGED outcome
    /\ UNCHANGED <<dir, env_name, base_config, env_config, ref>>

\* Discovery that parses the first candidate it finds before it counts them.
DetectEnvFilesParsingFirst ==
    /\ pc = "detect"
    /\ LET found == ExistingCandidates(dir, env_name) IN
       /\ io' = io \o [i \in 1..3 |-> Access("exists", Candidates(env_name)[i])]
                    \o (IF Len(found) = 0 THEN <<>> ELSE <<Access("open", found[1])>>)
       /\ IF Len(found) = 0
          THEN /\ pc' = "raised"
               /\ outcome' = NotFoundError(env_name)
               /\ UNCHANGED env_files
          ELSE IF Raised(read_file(dir, found[1]))
          THEN /\ pc' = "raised"
               /\ outcome' = read_file(dir, found[1])
               /\ UNCHANGED env_files
          ELSE IF Len(found) > 1
          THEN /\ pc' = "raised"
               /\ outcome' = MultipleFilesError(env_name, found)
               /\ UNCHANGED env_files
          ELSE /\ pc' = "load_env"
               /\ env_files' = found
               /\ UNCHANGED outcome
    /\ UNCHANGED <<dir, env_name, base_config, env_config, ref>>

\* Discovery of the environment file, and the two discovery errors.
DetectEnvFiles ==
    /\ pc = "detect"
    /\ LET found == ExistingCandidates(dir, env_name) IN
       /\ io' = io \o [i \in 1..3 |-> Access("exists", Candidates(env_name)[i])]
       /\ IF Len(found) = 0
          THEN /\ pc' = "raised"
               /\ outcome' = NotFoundError(env_name)
               /\ UNCHANGED env_files
          ELSE IF Len(found) > 1
          THEN /\ pc' = "raised"
               /\ outcome' = MultipleFilesError(env_name, found)
               /\ UNCHANGED env_files
          ELSE /\ pc' = "load_env"
               /\ env_files' = found
               /\ UNCHANGED outcome
    /\ UNCHANGED <<dir, env_name, base_config, env_config, ref>>

\* env_config = read_file(env_files[0]); return {**base_config, **env_config}
LoadEnvAndMerge ==
    /\ pc = "load_env"
    /\ LET r == read_file(dir, env_files[1])
           m == IF Raised(r) THEN r ELSE Merge(base_config, r.val)
       IN /\ io' = Append(io, Access("open", env_files[1]))
          /\ env_config' = IF Raised(r) THEN env_config ELSE r.val
          /\ outcome' = m
          /\ pc' = IF Raised(m) THEN "raised" ELSE "returned"
    /\ UNCHANGED <<dir, env_name, base_config, env_files, ref>>

\* The call is over: its frame is gone and the caller goes on.
Return ==
    /\ pc \in {"returned", "raised"}
    /\ pc' = "idle"
    /\ env_name' = NoName
    /\ base_config' = Unbound
    /\ env_files' = <<>>
    /\ env_config' = Unbound
    /\ outcome' = Pending
    /\ io' = <<>>
    /\ UNCHANGED <<dir, ref>>

-----------------------------------------------------------------------------
(* The directory changes between calls *)

WriteFile(f, text) ==
    /\ pc = "idle"
    /\ dir[f] # text
    /\ Cardinality(Present(dir) \cup {f}) <= MaxFiles
    /\ dir' = [dir EXCEPT ![f] = text]
    /\ UNCHANGED <<pc, env_name, base_config, env_files, env_config, outcome, io, ref>>

DeleteFile(f) ==
    /\ pc = "idle"
    /\ dir[f] # Absent
    /\ dir' = [dir EXCEPT ![f] = Absent]
    /\ UNCHANGED <<pc, env_name, base_config, env_files, env_config, outcome, io, ref>>

-----------------------------------------------------------------------------

Next ==
    \/ \E e \in Names : Call(e)
    \/ LoadBase
    \/ DetectEnvFiles
    \/ LoadEnvAndMerge
    \/ Return
    \/ \E f \in Files, text \in Texts : WriteFile(f, text)
    \/ \E f \in Files : DeleteFile(f)

Spec == Init /\ [][Next]_vars

-----------------------------------------------------------------------------
(* Repeated calls, with the result of an earlier call kept by the caller *)

\* The files, texts and names of the runs in which a result is kept.
RepeatFiles == {base_path, env_yaml("dev"), env_json("dev")}
RepeatTexts == {FlowText, BlockText, BadText}
RepeatNames == {"dev", "stage", ""}

\* result = load_context_config(env, temp_dir): the call ends and the caller
\* keeps what it gave, with the argument and the directory it was given for.
Remember ==
    /\ pc \in {"returned", "raised"}
    /\ ref' = [env |-> env_name, dir |-> dir, outcome |-> outcome]
    /\ pc' = "idle"
    /\ env_name' = NoName
    /\ base_config' = Unbound
    /\ env_files' = <<>>
    /\ env_config' = Unbound
    /\ outcome' = Pending
    /\ io' = <<>>
    /\ UNCHANGED dir

NextRepeat ==
    \/ \E e \in RepeatNames : Call(e)
    \/ LoadBase
    \/ DetectEnvFiles
    \/ LoadEnvAndMerge
    \/ Return
    \/ Remember
    \/ \E f \in RepeatFiles, text \in RepeatTexts : WriteFile(f, text)
    \/ \E f \in RepeatFiles : DeleteFile(f)

SpecRepeat == Init /\ [][NextRepeat]_vars

-----------------------------------------------------------------------------
(* Calls on a directory whose documents need not hold a mapping *)

\* The files, texts and names of these runs.
DocFiles ==
    {base_path} \cup {Path(e, s) : e \in {"dev", "prod"}, s \in {".yaml", ".yml", ".json"}}
DocTexts == {FlowText, BlockText, BadText, ListText, EmptyListText, ZeroText}
DocNames == {"dev", "prod", "stage"}

InitDocs ==
    /\ dir = [f \in DocFiles |-> Absent]
    /\ pc = "idle"
    /\ env_name = NoName
    /\ base_config = Unbound
    /\ env_files = <<>>
    /\ env_config = Unbound
    /\ outcome = Pending
    /\ io = <<>>
    /\ ref = NoRef

NextDocs ==
    \/ \E e \in DocNames : Call(e)
    \/ LoadBase
    \/ DetectEnvFiles
    \/ LoadEnvAndMerge
    \/ Return
    \/ \E f \in DocFiles, text \in DocTexts : WriteFile(f, text)
    \/ \E f \in DocFiles : DeleteFile(f)

SpecDocs == InitDocs /\ [][NextDocs]_vars

-----------------------------------------------------------------------------
(* Vocabulary of the properties *)

Done == pc \in {"returned", "raised"}

KnownEnvironment == env_name \in {"dev", "stage", "prod"}

\* The candidates of the requested environment that are on disk.
CandidatesOnDisk ==
    {p \in {<<env_name, ".yaml">>, <<env_name, ".yml">>, <<env_name, ".json">>} :
        p \in DOMAIN dir /\ dir[p] # Absent}

BaseOnDisk == dir[<<"base", ".yaml">>] # Absent

\* The paths the call in progress has opened for reading.
Opened == {io[i].path : i \in {j \in 1..Len(io) : io[j].op = "open"}}

\* The error kind of the specification's error table an outcome falls under.
ErrorKind(o) ==
    CASE o.exc.type = "<none>" -> "none"
      [] o.exc.type = "ValueError" /\ o.exc.msg[1] = "Invalid environment"
            -> "InvalidEnvironment"
      [] o.exc.type = "ValueError" /\ o.exc.msg[1] = "Multiple config files found"
            -> "AmbiguousConfig"
      [] o.exc.type = "ValueError" /\ o.exc.msg[1] = "Unsupported config file type"
            -> "UnsupportedFormat"
      [] o.exc.type = "FileNotFoundError" -> "ConfigNotFound"
      [] o.exc.type \in {"yaml.YAMLError", "json.JSONDecodeError"} -> "ParseError"
      [] OTHER -> o.exc.type

-----------------------------------------------------------------------------
(* C1 *)

\* C1: a call with an environment name other than dev, stage, prod has raised
\* the invalid-environment ValueError naming that value, and has made no
\* filesystem access at all, whatever the directory holds.
C1_InvalidEnvironmentBeforeIO ==
    (pc # "idle" /\ ~KnownEnvironment) =>
        /\ pc = "raised"
        /\ ErrorKind(outcome) = "InvalidEnvironment"
        /\ outcome.exc.msg[2] = env_name
        /\ io = <<>>

C1_Witness ==
    /\ pc = "raised"
    /\ env_name = "DEV"
    /\ dir[<<"dev", ".yaml">>] = FlowText
    /\ BaseOnDisk
    /\ ErrorKind(outcome) = "InvalidEnvironment"
    /\ io = <<>>

-----------------------------------------------------------------------------
(* C2 *)

\* C2: a call that returns, having read base mapping B and environment mapping
\* E, returns a mapping whose keys are those of B and of E, that carries E's
\* value on every key of E and B's value on every other key; where B and E both
\* hold a mapping under a key, the result holds E's, with none of the keys that
\* only B's has.
C2_ShallowMerge ==
    pc = "returned" =>
        LET B == base_config.items
            E == env_config.items
            M == outcome.val.items
        IN /\ outcome.val.type = "dict"
           /\ DOMAIN M = DOMAIN B \cup DOMAIN E
           /\ \A k \in DOMAIN E : M[k] = E[k]
           /\ \A k \in DOMAIN B \ DOMAIN E : M[k] = B[k]
           /\ \A k \in DOMAIN B \cap DOMAIN E :
                (B[k].type = "dict" /\ E[k].type = "dict") =>
                    \A j \in DOMAIN B[k].items \ DOMAIN E[k].items :
                        j \notin DOMAIN M[k].items

C2_Witness ==
    /\ pc = "returned"
    /\ base_config = FlowValue
    /\ env_config = BlockValue
    /\ outcome.val =
         PyDict([A |-> PyInt(1), B |-> PyInt(3), C |-> PyInt(4),
                 T |-> PyDict([y |-> PyInt(2)])])

-----------------------------------------------------------------------------
(* C3 *)

\* C3: while two or more candidates of a valid environment are on disk, a call
\* never returns a mapping, never opens a candidate of the environment, and
\* never settles on one of them in env_files.
C3_AmbiguityIsHardFailure ==
    (pc # "idle" /\ KnownEnvironment /\ Cardinality(CandidatesOnDisk) >= 2) =>
        /\ pc # "returned"
        /\ pc # "load_env"
        /\ Opened \cap CandidatesOnDisk = {}
        /\ env_files = <<>>
        /\ env_config = Unbound

C3_Witness ==
    /\ pc = "raised"
    /\ env_name = "dev"
    /\ Cardinality(CandidatesOnDisk) = 3
    /\ ErrorKind(outcome) = "AmbiguousConfig"
    /\ Len(io) = 4

-----------------------------------------------------------------------------
(* C4 and C5 *)

\* base.yaml is on disk and is not a YAML document.
BaseMalformed == dir[<<"base", ".yaml">>] = BadText

\* The sequence s lists exactly the paths of the set S.
Lists(s, S) == {s[i] : i \in 1..Len(s)} = S

\* The outcome is the error the YAML parser raises on base.yaml.
BaseParseError ==
    /\ pc = "raised"
    /\ outcome = yaml_safe_load(dir[<<"base", ".yaml">>])
    /\ outcome.exc.type = "yaml.YAMLError"

\* C4 as stated: with two or more candidates of a valid environment on disk, a
\* finished call has raised the ambiguity error listing every candidate on
\* disk, whatever any file of the directory holds, base.yaml included.
C4_AsStated ==
    (Done /\ KnownEnvironment /\ Cardinality(CandidatesOnDisk) >= 2) =>
        /\ pc = "raised"
        /\ ErrorKind(outcome) = "AmbiguousConfig"
        /\ Lists(outcome.exc.msg[3], CandidatesOnDisk)

\* C4, amended: with two or more candidates of a valid environment on disk, a
\* finished call has raised the ambiguity error naming the environment and
\* listing every candidate on disk, whatever the candidates hold, when
\* base.yaml is absent or is a YAML document; when base.yaml is malformed the
\* call has raised the YAML parser's error on base.yaml instead.
C4_AmbiguousUnlessBaseMalformed ==
    (Done /\ KnownEnvironment /\ Cardinality(CandidatesOnDisk) >= 2) =>
        IF BaseMalformed
        THEN BaseParseError
        ELSE /\ pc = "raised"
             /\ ErrorKind(outcome) = "AmbiguousConfig"
             /\ outcome.exc.msg[2] = env_name
             /\ Lists(outcome.exc.msg[3], CandidatesOnDisk)

C4_Witness ==
    /\ pc = "raised"
    /\ env_name = "dev"
    /\ dir[<<"base", ".yaml">>] = BlockText
    /\ dir[<<"dev", ".yaml">>] = BadText
    /\ dir[<<"dev", ".json">>] = EmptyText
    /\ ErrorKind(outcome) = "AmbiguousConfig"
    /\ outcome.exc.msg[3] = << <<"dev", ".yaml">>, <<"dev", ".json">> >>

\* C5 as stated: with no candidate of a valid environment on disk, a finished
\* call has raised the not-found error naming the environment and the three
\* candidate paths, whether or not base.yaml exists and whatever it holds.
C5_AsStated ==
    (Done /\ KnownEnvironment /\ CandidatesOnDisk = {}) =>
        /\ pc = "raised"
        /\ ErrorKind(outcome) = "ConfigNotFound"
        /\ outcome.exc.msg[2] = env_name
        /\ outcome.exc.msg[3] =
             << <<env_name, ".yaml">>, <<env_name, ".yml">>, <<env_name, ".json">> >>

\* C5, amended: with no candidate of a valid environment on disk, a finished
\* call has raised the not-found error naming the environment and the three
\* candidate paths, when base.yaml is absent or is a YAML document; when
\* base.yaml is malformed the call has raised the YAML parser's error on
\* base.yaml instead.
C5_NotFoundUnlessBaseMalformed ==
    (Done /\ KnownEnvironment /\ CandidatesOnDisk = {}) =>
        IF BaseMalformed
        THEN BaseParseError
        ELSE /\ pc = "raised"
             /\ ErrorKind(outcome) = "ConfigNotFound"
             /\ outcome.exc.msg[2] = env_name
             /\ outcome.exc.msg[3] =
                  << <<env_name, ".yaml">>, <<env_name, ".yml">>,
                     <<env_name, ".json">> >>

C5_Witness ==
    /\ pc = "raised"
    /\ env_name = "prod"
    /\ dir[<<"base", ".yaml">>] = FlowText
    /\ dir[<<"dev", ".yaml">>] = FlowText
    /\ ErrorKind(outcome) = "ConfigNotFound"
    /\ Len(outcome.exc.msg[3]) = 3

-----------------------------------------------------------------------------
(* C6, C7 and C8 *)

\* The one candidate on disk, when there is exactly one.
TheCandidate == CHOOSE p \in CandidatesOnDisk : TRUE

\* The text is a document holding a mapping, in the format of the suffix.
HoldsMapping(suffix, text) ==
    IF suffix = ".json" THEN text = FlowText ELSE text \in {FlowText, BlockText}

\* The mapping such a document holds.
MappingOf(text) == IF text = FlowText THEN FlowValue ELSE BlockValue

\* The text is zero bytes or white space only.
IsBlank(text) == text \in {"", " \n"}

OneCandidate == KnownEnvironment /\ Cardinality(CandidatesOnDisk) = 1

\* C6: with no base.yaml and exactly one candidate of a valid environment, that
\* candidate holding a mapping E, a finished call has returned exactly E.
C6_AbsentBaseIsEmpty ==
    (Done /\ OneCandidate /\ ~BaseOnDisk
          /\ HoldsMapping(TheCandidate[2], dir[TheCandidate])) =>
        /\ pc = "returned"
        /\ outcome.val = MappingOf(dir[TheCandidate])
        /\ io[1] = [op |-> "exists", path |-> <<"base", ".yaml">>]
        /\ <<"base", ".yaml">> \notin Opened

C6_Witness ==
    /\ pc = "returned"
    /\ env_name = "stage"
    /\ ~BaseOnDisk
    /\ dir[<<"base", ".json">>] = FlowText
    /\ CandidatesOnDisk = {<<"stage", ".json">>}
    /\ outcome.val = FlowValue

\* C7: an empty or blank {env}.yaml or {env}.yml, as the one candidate of a
\* valid environment, is no error and adds no key: over a base mapping B the
\* call returns B (and the empty mapping when base.yaml is absent or blank
\* too); an empty or blank base.yaml is no error and the call returns the
\* mapping E of the one candidate.
C7_EmptyYamlIsEmptyMapping ==
    (Done /\ OneCandidate) =>
        LET p    == TheCandidate
            base == dir[<<"base", ".yaml">>]
        IN /\ ( /\ p[2] \in {".yaml", ".yml"}
                /\ IsBlank(dir[p])
                /\ HoldsMapping(".yaml", base) ) =>
                    (pc = "returned" /\ outcome.val = MappingOf(base))
           /\ ( /\ p[2] \in {".yaml", ".yml"}
                /\ IsBlank(dir[p])
                /\ (base = Absent \/ IsBlank(base)) ) =>
                    (pc = "returned" /\ outcome.val = PyDict([k \in {} |-> 0]))
           /\ ( /\ IsBlank(base)
                /\ HoldsMapping(p[2], dir[p]) ) =>
                    (pc = "returned" /\ outcome.val = MappingOf(dir[p]))

C7_Witness ==
    /\ pc = "returned"
    /\ env_name = "dev"
    /\ dir[<<"base", ".yaml">>] = BlockText
    /\ CandidatesOnDisk = {<<"dev", ".yml">>}
    /\ dir[<<"dev", ".yml">>] = " \n"
    /\ outcome.val = BlockValue

\* C8: an empty or blank {env}.json, as the one candidate of a valid
\* environment, stands for the empty mapping as an empty YAML candidate does:
\* over a base mapping B (or no base.yaml) the call returns B (or the empty
\* mapping).
C8_EmptyJsonIsEmptyMapping ==
    (Done /\ OneCandidate /\ TheCandidate[2] = ".json" /\ IsBlank(dir[TheCandidate])
          /\ (~BaseOnDisk \/ HoldsMapping(".yaml", dir[<<"base", ".yaml">>]))) =>
        /\ pc = "returned"
        /\ outcome.val = IF BaseOnDisk THEN MappingOf(dir[<<"base", ".yaml">>])
                         ELSE PyDict([k \in {} |-> 0])

-----------------------------------------------------------------------------
(* C9 *)

\* The text is not a document of the format of the suffix.
IsMalformed(suffix, text) ==
    IF suffix = ".json" THEN text # FlowText ELSE text = BadText

\* C9: with exactly one candidate of a valid environment on disk, when
\* base.yaml or the candidate is malformed a finished call has raised, and
\* what it raised is the very error of the parser on the first malformed file
\* it read: the YAML parser's for base.yaml and for a .yaml or .yml candidate,
\* the JSON parser's for a .json candidate.
C9_ParseErrorsPropagateUnchanged ==
    (Done /\ OneCandidate
          /\ (BaseMalformed \/ IsMalformed(TheCandidate[2], dir[TheCandidate]))) =>
        /\ pc = "raised"
        /\ ErrorKind(outcome) = "ParseError"
        /\ IF BaseMalformed
           THEN BaseParseError
           ELSE IF TheCandidate[2] = ".json"
           THEN /\ outcome = json_load(dir[TheCandidate])
                /\ outcome.exc.type = "json.JSONDecodeError"
           ELSE /\ outcome = yaml_safe_load(dir[TheCandidate])
                /\ outcome.exc.type = "yaml.YAMLError"

C9_Witness ==
    /\ pc = "raised"
    /\ env_name = "dev"
    /\ dir[<<"base", ".yaml">>] = FlowText
    /\ CandidatesOnDisk = {<<"dev", ".json">>}
    /\ dir[<<"dev", ".json">>] = BlockText
    /\ outcome.exc.type = "json.JSONDecodeError"
    /\ base_config = FlowValue

-----------------------------------------------------------------------------
(* C10 *)

\* C10: whatever calls and changes of the directory came before, a finished
\* call has the outcome (the mapping returned, or the exception raised) that
\* any remembered earlier call had with the same environment name on the same
\* directory contents.
C10_OutcomeIsFunctionOfArgsAndDirectory ==
    (Done /\ ref.env = env_name /\ ref.dir = dir) => ref.outcome = outcome

\* A later call with the argument and the directory of the remembered one, and
\* a later call on a changed directory that gives something else.
C10_Witness ==
    /\ pc = "returned"
    /\ ref.env = "dev"
    /\ env_name = "dev"
    /\ ref.dir = dir
    /\ ref.outcome = outcome
    /\ io # <<>>
    /\ dir[<<"base", ".yaml">>] = FlowText
    /\ dir[<<"dev", ".json">>] = FlowText

C10_WitnessChanged ==
    /\ pc = "raised"
    /\ ref.env = "dev"
    /\ env_name = "dev"
    /\ ref.dir # dir
    /\ ~Raised(ref.outcome)
    /\ ErrorKind(outcome) = "AmbiguousConfig"

-----------------------------------------------------------------------------
(* C11 *)

\* The five error kinds of the error table.
TableErrorKinds ==
    {"InvalidEnvironment", "ConfigNotFound", "AmbiguousConfig", "ParseError",
     "UnsupportedFormat"}

\* C11: a finished call has either returned a mapping or raised an error of
\* one of the five kinds of the error table, whatever the name and whatever
\* the files hold, documents whose top-level value is no mapping included.
C11_OnlyTableErrors ==
    Done =>
        \/ pc = "returned" /\ outcome.val.type = "dict"
        \/ pc = "raised" /\ ErrorKind(outcome) \in TableErrorKinds

-----------------------------------------------------------------------------
(* C14 *)

\* The text is a document whose top-level value is a mapping, or is empty.
MappingOrEmpty(text) == text \in {FlowText, BlockText, "", " \n"}

\* C14: a call that has returned read only documents whose top-level value is
\* a mapping (or that are empty): base.yaml, when on disk, and the one
\* candidate of the environment; a document holding a sequence or a scalar
\* never ends in a returned mapping.
C14_OnlyMappingsSucceed ==
    pc = "returned" =>
        /\ BaseOnDisk => MappingOrEmpty(dir[<<"base", ".yaml">>])
        /\ MappingOrEmpty(dir[TheCandidate])

-----------------------------------------------------------------------------
(* C12 *)

\* The accesses of the call in progress that open a file.
Opens == SelectSeq(io, LAMBDA a : a.op = "open")

\* What the access log of a call may hold at any moment: at most two files
\* opened, none twice, each of them base.yaml or a candidate of the requested
\* environment, and a candidate only when it is the only one on disk.
ReadsAtMostBaseAndOneCandidate ==
    /\ Len(Opens) <= 2
    /\ Cardinality(Opened) = Len(Opens)
    /\ Opened \subseteq {<<"base", ".yaml">>} \cup CandidatesOnDisk
    /\ Cardinality(Opened \cap CandidatesOnDisk) <= 1
    /\ (Opened \cap CandidatesOnDisk # {}) => Cardinality(CandidatesOnDisk) = 1

\* C12: throughout a call, load_context_config has opened at most two files,
\* base.yaml and at most one candidate of the requested environment, the
\* latter only when exactly one candidate is on disk, never a file of another
\* environment or another base variant; and no step of a call changes the
\* directory.
C12_ReadOnlyAtMostTwoFiles ==
    /\ [](pc # "idle" => ReadsAtMostBaseAndOneCandidate)
    /\ [][pc # "idle" => dir' = dir]_vars

C12_Witness ==
    /\ pc = "returned"
    /\ env_name = "stage"
    /\ dir[<<"base", ".json">>] = BlockText
    /\ dir[<<"base", ".yaml">>] = FlowText
    /\ dir[<<"stage", ".yml">>] = BlockText
    /\ Opened = {<<"base", ".yaml">>, <<"stage", ".yml">>}

C12_WitnessOtherEnvironment ==
    /\ pc = "raised"
    /\ env_name = "stage"
    /\ dir[<<"dev", ".yaml">>] = FlowText
    /\ dir[<<"dev", ".json">>] = FlowText
    /\ CandidatesOnDisk = {}
    /\ Opened = {}

-----------------------------------------------------------------------------
(* C13 *)

\* What the parser that goes with the suffix makes of the text.
ParsedBySuffix(suffix, text) ==
    IF suffix = ".json" THEN json_load(text) ELSE yaml_safe_load(text)

\* C13: the one candidate of a valid environment is parsed by the parser of
\* its suffix, and base.yaml by the YAML parser: with no base.yaml, a finished
\* call has raised what that parser raises on the candidate's text, and has
\* returned exactly the mapping that parser reads from it when it reads one;
\* and with base.yaml on disk, a call past the base load holds in base_config
\* the mapping the YAML parser reads from it.
C13_ParserFollowsSuffix ==
    /\ (Done /\ OneCandidate /\ ~BaseOnDisk) =>
          LET p      == TheCandidate
              parsed == ParsedBySuffix(p[2], dir[p])
          IN /\ Raised(parsed) => (pc = "raised" /\ outcome = parsed)
             /\ (~Raised(parsed) /\ parsed.val.type = "dict") =>
                    (pc = "returned" /\ outcome.val = parsed.val)
             /\ (HoldsMapping(p[2], dir[p])) =>
                    (pc = "returned" /\ outcome.val = MappingOf(dir[p]))
    /\ (pc \in {"detect", "load_env", "returned"} /\ BaseOnDisk
           /\ dir[<<"base", ".yaml">>] \in {FlowText, BlockText}) =>
          base_config = MappingOf(dir[<<"base", ".yaml">>])

C13_Witness ==
    /\ pc = "returned"
    /\ env_name = "prod"
    /\ ~BaseOnDisk
    /\ CandidatesOnDisk = {<<"prod", ".json">>}
    /\ dir[<<"prod", ".json">>] = FlowText
    /\ dir[<<"dev", ".json">>] = BlockText
    /\ outcome.val = FlowValue

C13_WitnessYamlOnlyTextInJson ==
    /\ pc = "raised"
    /\ env_name = "dev"
    /\ ~BaseOnDisk
    /\ CandidatesOnDisk = {<<"dev", ".json">>}
    /\ dir[<<"dev", ".json">>] = BlockText
    /\ outcome.exc.type = "json.JSONDecodeError"

C13_WitnessYml ==
    /\ pc = "returned"
    /\ env_name = "prod"
    /\ ~BaseOnDisk
    /\ CandidatesOnDisk = {<<"prod", ".yml">>}
    /\ outcome.val = BlockValue

-----------------------------------------------------------------------------
(* C15 *)

\* The accesses of the steps of a call on the directory as it is, in the order
\* of the steps: the base step, the discovery step, the environment file.
BaseAccesses ==
    <<[op |-> "exists", path |-> <<"base", ".yaml">>]>>
        \o (IF BaseOnDisk THEN <<[op |-> "open", path |-> <<"base", ".yaml">>]>>
            ELSE <<>>)

DiscoveryAccesses ==
    <<[op |-> "exists", path |-> <<env_name, ".yaml">>],
      [op |-> "exists", path |-> <<env_name, ".yml">>],
      [op |-> "exists", path |-> <<env_name, ".json">>]>>

\* C15: the steps of a call come in one order (validation, the existence check
\* and parse of base.yaml, the existence checks of the three candidates, the
\* parse of the single candidate, the merge) and the first step that fails
\* gives the error: an invalid name fails before any access; a malformed
\* base.yaml fails with the parser's error when no candidate has been checked
\* for existence; the not-found and multiple-files errors come when the three
\* candidates have been checked and none has been opened; a call that
\* returns, or fails on the candidate or on the merge, has made all the
\* accesses in that order.
C15_StepsInOrder ==
    /\ (pc # "idle" /\ ~KnownEnvironment) => io = <<>>
    /\ (pc = "load_base") => io = <<>>
    /\ (pc = "detect") => io = BaseAccesses
    /\ (pc = "load_env") => io = BaseAccesses \o DiscoveryAccesses
    /\ (pc = "returned") =>
          io = BaseAccesses \o DiscoveryAccesses
                 \o <<[op |-> "open", path |-> TheCandidate]>>
    /\ (pc = "raised" /\ KnownEnvironment) =>
          IF BaseMalformed
          THEN BaseParseError /\ io = BaseAccesses
          ELSE IF Cardinality(CandidatesOnDisk) # 1
          THEN /\ ErrorKind(outcome) \in {"ConfigNotFound", "AmbiguousConfig"}
               /\ io = BaseAccesses \o DiscoveryAccesses
          ELSE /\ ErrorKind(outcome) \notin {"ConfigNotFound", "AmbiguousConfig"}
               /\ io = BaseAccesses \o DiscoveryAccesses
                         \o <<[op |-> "open", path |-> TheCandidate]>>

C15_Witness ==
    /\ pc = "raised"
    /\ env_name = "dev"
    /\ BaseMalformed
    /\ Cardinality(CandidatesOnDisk) = 2
    /\ dir[<<"dev", ".json">>] = BadText
    /\ outcome.exc.type = "yaml.YAMLError"
    /\ Len(io) = 2

C15_WitnessAmbiguousBeforeParse ==
    /\ pc = "raised"
    /\ env_name = "dev"
    /\ dir[<<"base", ".yaml">>] = FlowText
    /\ dir[<<"dev", ".yaml">>] = BadText
    /\ dir[<<"dev", ".yml">>] = BadText
    /\ ErrorKind(outcome) = "AmbiguousConfig"
    /\ Len(io) = 5

=============================================================================
